---- MODULE Spec2Model ----
(***************************************************************************)
(* makeepub (main.go): source providers, asset collection, the chapter     *)
(* segmenter addChaptersToBook and the generateBook / main pipeline.       *)
(*                                                                         *)
(* Text is modelled byte by byte: a string is a sequence of one-character  *)
(* strings, "\n" and "\t" included.  A document is the sequence of lines   *)
(* bufio.Reader.ReadLine delivers for it (each within the reader's buffer, *)
(* line terminator removed).                                               *)
(***************************************************************************)
EXTENDS Integers, Sequences, FiniteSets, TLC

\* ------------------------------------------------------------- bounds
MaxLines == 4          \* lines of an enumerated book.html
MaxReadErrors == 1     \* non-EOF read errors the reader injects in one scan
MaxMaxDepth == 2       \* largest maxDepth handed to addChaptersToBook
MaxEntries == 2        \* entries of an enumerated Source
MaxBufBytes == 128     \* bytes the content buffer holds before memory runs out

\* ------------------------------------------------------------- text
NL == "\n"
TAB == "\t"
Ws == {" ", TAB}
Digits16 == {"1", "2", "3", "4", "5", "6"}

DigitVal(c) ==
  CASE c = "1" -> 1 [] c = "2" -> 2 [] c = "3" -> 3
    [] c = "4" -> 4 [] c = "5" -> 5 [] c = "6" -> 6 [] OTHER -> 0

\* strings.ToLower on the letters the model's names use
LowerChar(c) ==
  CASE c = "B" -> "b" [] c = "O" -> "o" [] c = "K" -> "k" [] c = "I" -> "i"
    [] c = "N" -> "n" [] c = "H" -> "h" [] c = "T" -> "t" [] c = "M" -> "m"
    [] c = "L" -> "l" [] c = "C" -> "c" [] c = "V" -> "v" [] c = "E" -> "e"
    [] c = "R" -> "r" [] c = "A" -> "a" [] c = "D" -> "d" [] c = "Y" -> "y"
    [] c = "X" -> "x" [] OTHER -> c

ToLower(s) == [i \in DOMAIN s |-> LowerChar(s[i])]

\* first index >= i of l that is past the end or holds a character outside S
SkipIn(l, i, S) ==
  CHOOSE j \in i..(Len(l) + 1) :
    /\ \A k \in i..(j - 1) : l[k] \in S
    /\ (j = Len(l) + 1 \/ l[j] \notin S)

\* first index >= i of l that is past the end or holds a character of S
SkipNotIn(l, i, S) ==
  CHOOSE j \in i..(Len(l) + 1) :
    /\ \A k \in i..(j - 1) : l[k] \notin S
    /\ (j = Len(l) + 1 \/ l[j] \in S)

At(l, i, S) == i >= 1 /\ i <= Len(l) /\ l[i] \in S

\* reHeader.FindStringSubmatch(l): <<>> when l does not match, else
\* <<whole, level of the opening tag, inner text, level of the closing tag>>
reHeader(l) ==
  LET a == SkipIn(l, 1, Ws)
      b == SkipNotIn(l, a + 3, {">"})
      c == SkipNotIn(l, b + 1, {"<"})
  IN IF /\ At(l, a, {"<"}) /\ At(l, a + 1, {"h", "H"}) /\ At(l, a + 2, Digits16)
        /\ At(l, b, {">"})
        /\ At(l, c, {"<"}) /\ At(l, c + 1, {"/"}) /\ At(l, c + 2, {"h", "H"})
        /\ At(l, c + 3, Digits16) /\ At(l, c + 4, {">"})
        /\ SkipIn(l, c + 5, Ws) = Len(l) + 1
     THEN << l, <<l[a + 2]>>, SubSeq(l, b + 1, c - 1), <<l[c + 3]>> >>
     ELSE << >>

\* reBody.MatchString(l)
reBody(l) ==
  LET a == SkipIn(l, 1, Ws)
      b == SkipNotIn(l, a + 5, {">"})
  IN /\ At(l, a, {"<"})
     /\ At(l, a + 1, {"b", "B"}) /\ At(l, a + 2, {"o", "O"})
     /\ At(l, a + 3, {"d", "D"}) /\ At(l, a + 4, {"y", "Y"})
     /\ At(l, b, {">"}) /\ b = Len(l)

checkNewChapter_TitleFromLevel(l) ==
  LET m == reHeader(l)
  IN IF m # << >> /\ m[2] = m[4]
     THEN [depth |-> DigitVal(m[2][1]), title |-> m[2]]
     ELSE [depth |-> 0, title |-> << >>]

checkNewChapter(l) ==
  LET m == reHeader(l)
  IN IF m # << >> /\ m[2] = m[4]
     THEN [depth |-> DigitVal(m[2][1]), title |-> m[3]]
     ELSE [depth |-> 0, title |-> << >>]

\* the closing footer written before a mid-stream chapter is registered
Footer == <<TAB, "<", "/", "b", "o", "d", "y", ">", NL, "<", "/", "h", "t", "m", "l", ">">>

\* ------------------------------------------------------------- inputs
BookIni == <<"b", "o", "o", "k", ".", "i", "n", "i">>
BookHtml == <<"b", "o", "o", "k", ".", "h", "t", "m", "l">>
CoverHtml == <<"c", "o", "v", "e", "r", ".", "h", "t", "m", "l">>

NIniU == <<"B", "o", "o", "k", ".", "I", "N", "I">>
NHtmlU == <<"B", "O", "O", "K", ".", "h", "t", "m", "l">>
NAsset == <<"a", ".", "x">>
NAssetU == <<"A", ".", "x">>

\* the entry names enumerated Sources are made of
EntryNames == {BookIni, NIniU, NHtmlU, CoverHtml, NAsset, NAssetU}

LBody == <<"<", "b", "o", "d", "y", ">">>
LH1A == <<"<", "h", "1", ">", "A", "<", "/", "h", "1", ">">>
LH2A1 == <<"<", "h", "2", ">", "A", ".", "1", "<", "/", "h", "2", ">">>
LH1B == <<"<", "h", "1", ">", "B", "<", "/", "h", "1", ">">>
LMis == <<"<", "h", "1", ">", "A", "<", "/", "h", "2", ">">>
LP1 == <<"p", "1">>
LP2 == <<"p", "2">>
LP3 == <<"p", "3">>

\* the lines enumerated documents are made of
Alphabet == {LBody, LH1A, LH2A1, LMis, LP1}

\* the document of the two segmentation scenarios: an Envelope of one line,
\* then h1 A / p1 / h2 A.1 / p2 / h1 B / p3
ScenarioBody == <<LH1A, LP1, LH2A1, LP2, LH1B, LP3>>
ScenarioDoc == <<LBody>> \o ScenarioBody

SeqsUpTo(S, n) == UNION {[1..k -> S] : k \in 0..n}

Docs == SeqsUpTo(Alphabet, MaxLines) \cup {ScenarioDoc}

\* ------------------------------------------------------------- state
VARIABLES
  backend,    \* "dir" (FolderSource) or "zip" (ZipSource)
  entries,    \* the entry names of the Source, in traversal order
  doc,        \* the lines of book.html
  bookMax,    \* book.MaxDepth()
  maxDepth,   \* the maxDepth argument of addChaptersToBook
  segPc,      \* position in addChaptersToBook
  segErr,     \* the error addChaptersToBook returns ("nil" for none)
  fOpen,      \* whether the book.html stream is open
  pos,        \* lines of doc the reader has delivered
  rdErrs,     \* non-EOF errors ReadLine has returned
  rdStuck,    \* the reader's error is persistent: once failed, every read fails
  header,     \* the captured Envelope
  buf,        \* the content buffer
  depth,      \* depth of the chapter being accumulated
  title,      \* title of the chapter being accumulated
  calls,      \* the AddChapter calls made, in order, each with its result
  reqPath,    \* the path of a single OpenFile lookup
  openRes,    \* its result: index of the entry opened, 0 for os.ErrNotExist
  hdrLine,    \* the line of a single checkNewChapter call
  hdrRes,     \* its result: << >> before the call, then <<[depth, title]>>
  filesPc,    \* position in addFilesToBook
  filesErr,   \* the error addFilesToBook returns ("nil" for none)
  fIdx,       \* entries Traverse has handed to the visitor
  openStreams,\* indices of the entries whose byte stream is open
  opened,     \* the paths the visitor called OpenFile with, in order
  files,      \* the AddFile calls made, in order, each with its result
  mainPc,     \* position in main / generateBook
  cfgDepth,   \* the /book/depth value of book.ini
  outPath,    \* whether an output path is configured or given
  cfgRes,     \* outcome of loadConfig
  epubRes,    \* outcome of NewEpub
  coverRes,   \* outcome of setCoverPage's open and read
  saveRes,    \* outcome of book.Save ("none" while not invoked)
  gbErr,      \* the error generateBook returns ("nil" for none)
  zipHandle,  \* the archive handle: "none", "open" or "closed"
  deferred,   \* the deferred calls of main
  exitCode    \* the process exit code, -1 while running

srcVars == <<backend, entries>>
lookVars == <<reqPath, openRes, hdrLine, hdrRes>>
fileVars == <<filesPc, filesErr, fIdx, openStreams, opened, files>>
mainVars == <<mainPc, cfgDepth, outPath, cfgRes, epubRes, coverRes, saveRes,
              gbErr, zipHandle, deferred, exitCode>>
nonSeg == <<srcVars, lookVars, fileVars, mainVars>>
segVars == <<doc, bookMax, maxDepth, segPc, segErr, fOpen, pos, rdErrs, rdStuck,
             header, buf, depth, title, calls>>
vars == <<srcVars, segVars, lookVars, fileVars, mainVars>>

\* ------------------------------------------------------------- sources
\* index of the entry OpenFile opens, 0 for os.ErrNotExist
FolderOpenFile(es, path) ==
  IF \E i \in DOMAIN es : es[i] = path
  THEN CHOOSE i \in DOMAIN es : es[i] = path
  ELSE 0

ZipOpenFile(es, path) ==
  LET hits == {i \in DOMAIN es : ToLower(es[i]) = path}
  IN IF hits = {} THEN 0
     ELSE CHOOSE i \in hits : \A j \in hits : i <= j

OpenFile(b, es, path) ==
  IF b = "dir" THEN FolderOpenFile(es, path) ELSE ZipOpenFile(es, path)

\* ------------------------------------------------------------- container
\* book.AddChapter(title, data, depth): ok, or the depth-exceeded error
AddChapter(t, data, d) == IF d > bookMax THEN "DepthExceeded" ELSE "nil"

\* ------------------------------------------------------------- segmenter
IsBoundary_NoDepthLimit(nd, md) == nd > 0

\* line 176: the heading starts a chapter
IsBoundary(nd, md) == nd > 0 /\ nd <= md

PrologueOnError_EofBreaks(e) == IF e = "EOF" THEN "break" ELSE "return"

\* lines 158-160: any ReadLine error of the first loop is returned
PrologueOnError(e) == "return"

\* lines 172-174: only io.EOF leaves the second loop
AccumOnError(e) == IF e = "EOF" THEN "break" ELSE "continue"

\* the reader behind bufio.Reader.ReadLine: it delivers the next line, reports
\* io.EOF after the last one, or fails with another error; a transient error
\* happens at most MaxReadErrors times, a persistent one (rdStuck) is returned
\* by every read that follows the first failure
ReaderDead == rdStuck /\ rdErrs > 0

ReadLineDelivers == pos < Len(doc) /\ ~ReaderDead

ReadLineFails(e) ==
  IF e = "EOF"
  THEN pos = Len(doc) /\ ~ReaderDead
  ELSE ReaderDead \/ rdErrs < MaxReadErrors

ErrorsAfter(e) ==
  IF e = "IOError" /\ rdErrs < MaxReadErrors THEN rdErrs + 1 ELSE rdErrs

\* bytes.Buffer grows on every WriteString and panics (ErrTooLarge) when the
\* memory for b cannot be had
BufferTooLarge(b) == Len(b) > MaxBufBytes

SegReturn(e) ==
  /\ segPc' = "ret"
  /\ segErr' = e
  /\ fOpen' = FALSE

SegOpen ==
  /\ segPc = "open"
  /\ IF OpenFile(backend, entries, BookHtml) = 0
     THEN /\ segPc' = "ret"
          /\ segErr' = "NotExist"
          /\ UNCHANGED fOpen
     ELSE /\ segPc' = "prologue"
          /\ fOpen' = TRUE
          /\ UNCHANGED segErr
  /\ UNCHANGED <<nonSeg, doc, bookMax, maxDepth, pos, rdErrs, rdStuck, header,
                 buf, depth, title, calls>>

EnterAccum_DepthZero ==
  /\ segPc' = "accum"
  /\ buf' = << >>
  /\ depth' = 0
  /\ title' = << >>
  /\ UNCHANGED <<segErr, fOpen>>

EnterAccum ==
  /\ segPc' = "accum"
  /\ buf' = << >>
  /\ depth' = 1
  /\ title' = << >>
  /\ UNCHANGED <<segErr, fOpen>>

SegPrologueLine ==
  /\ segPc = "prologue"
  /\ ReadLineDelivers
  /\ LET l == doc[pos + 1]
     IN /\ header' = header \o l \o <<NL>>
        /\ pos' = pos + 1
        /\ IF reBody(l)
           THEN EnterAccum
           ELSE UNCHANGED <<segPc, segErr, fOpen, buf, depth, title>>
  /\ UNCHANGED <<nonSeg, doc, bookMax, maxDepth, rdErrs, rdStuck, calls>>

\* ReadLine fails in the first loop: end of input, or another read error
SegPrologueFail ==
  /\ segPc = "prologue"
  /\ \E e \in {"EOF", "IOError"} :
       /\ ReadLineFails(e)
       /\ rdErrs' = ErrorsAfter(e)
       /\ IF PrologueOnError(e) = "return"
          THEN SegReturn(e) /\ UNCHANGED <<buf, depth, title>>
          ELSE EnterAccum
  /\ UNCHANGED <<nonSeg, doc, bookMax, maxDepth, pos, rdStuck, header, calls>>

\* lines 175-188: the body of the second loop for the line l
AccumBody(l) ==
  LET h == checkNewChapter(l)
      boundary == IsBoundary(h.depth, maxDepth)
      flush == boundary /\ Len(buf) > 0
      data == buf \o Footer
      r == AddChapter(title, data, depth)
      grown == (IF boundary THEN header ELSE buf) \o l \o <<NL>>
  IN IF (flush /\ BufferTooLarge(data)) \/ (~flush /\ BufferTooLarge(grown))
     THEN /\ segPc' = "panic"
          /\ fOpen' = FALSE
          /\ UNCHANGED <<segErr, buf, depth, title, calls>>
     ELSE /\ calls' = IF flush
                      THEN Append(calls, [title |-> title, data |-> data,
                                          depth |-> depth, res |-> r])
                      ELSE calls
          /\ IF flush /\ r # "nil"
             THEN /\ SegReturn(r)
                  /\ buf' = data
                  /\ UNCHANGED <<depth, title>>
             ELSE /\ depth' = IF boundary THEN h.depth ELSE depth
                  /\ title' = IF boundary THEN h.title ELSE title
                  /\ buf' = grown
                  /\ UNCHANGED <<segPc, segErr, fOpen>>

SegAccumLine ==
  /\ segPc = "accum"
  /\ ReadLineDelivers
  /\ pos' = pos + 1
  /\ AccumBody(doc[pos + 1])
  /\ UNCHANGED <<nonSeg, doc, bookMax, maxDepth, rdErrs, rdStuck, header>>

SegFinish_WithFooter ==
  /\ IF Len(buf) > 0
     THEN calls' = Append(calls, [title |-> title, data |-> buf \o Footer,
                                  depth |-> depth,
                                  res |-> AddChapter(title, buf \o Footer, depth)])
     ELSE UNCHANGED calls
  /\ SegReturn("nil")
  /\ UNCHANGED <<buf, depth, title>>

\* lines 191-195: the last chapter; its AddChapter result is dropped
SegFinish ==
  /\ IF Len(buf) > 0
     THEN calls' = Append(calls, [title |-> title, data |-> buf, depth |-> depth,
                                  res |-> AddChapter(title, buf, depth)])
     ELSE UNCHANGED calls
  /\ SegReturn("nil")
  /\ UNCHANGED <<buf, depth, title>>

\* ReadLine fails in the second loop
SegAccumFail ==
  /\ segPc = "accum"
  /\ \E e \in {"EOF", "IOError"} :
       /\ ReadLineFails(e)
       /\ rdErrs' = ErrorsAfter(e)
       /\ IF AccumOnError(e) = "break"
          THEN SegFinish
          ELSE AccumBody(<< >>)
  /\ UNCHANGED <<nonSeg, doc, bookMax, maxDepth, pos, rdStuck, header>>

SegNext == SegOpen \/ SegPrologueLine \/ SegPrologueFail \/ SegAccumLine \/ SegAccumFail

\* addChaptersToBook called on a Source holding book.html (or not), for every
\* document, split depth and container depth limit
SegSources == {<<BookHtml>>, << >>}

IdleSeg ==
  /\ segPc = "idle"
  /\ segErr = "nil"
  /\ fOpen = FALSE
  /\ pos = 0
  /\ rdErrs = 0
  /\ rdStuck = FALSE
  /\ header = << >>
  /\ buf = << >>
  /\ depth = 1
  /\ title = << >>
  /\ calls = << >>

IdleHdr ==
  /\ hdrLine = << >>
  /\ hdrRes = << >>

IdleLook ==
  /\ reqPath = << >>
  /\ openRes = -1
  /\ IdleHdr

IdleFiles ==
  /\ filesPc = "idle"
  /\ filesErr = "nil"
  /\ fIdx = 0
  /\ openStreams = {}
  /\ opened = << >>
  /\ files = << >>

IdleMain ==
  /\ mainPc = "unit"
  /\ cfgDepth = 1
  /\ outPath = FALSE
  /\ cfgRes = "none"
  /\ epubRes = "none"
  /\ coverRes = "none"
  /\ saveRes = "none"
  /\ gbErr = "nil"
  /\ zipHandle = "none"
  /\ deferred = << >>
  /\ exitCode = -1

InitSeg ==
  /\ IdleLook /\ IdleFiles /\ IdleMain
  /\ backend \in {"dir", "zip"}
  /\ entries \in SegSources
  /\ doc \in (IF entries = << >> THEN {<< >>} ELSE Docs)
  /\ bookMax \in 1..MaxMaxDepth
  /\ maxDepth \in 1..MaxMaxDepth
  /\ segPc = "open"
  /\ segErr = "nil"
  /\ fOpen = FALSE
  /\ pos = 0
  /\ rdErrs = 0
  /\ rdStuck = FALSE
  /\ header = << >>
  /\ buf = << >>
  /\ depth = 1
  /\ title = << >>
  /\ calls = << >>

SpecSeg == InitSeg /\ [][SegNext]_vars

\* the same scan read through a reader whose first error may be persistent
\* (a failing device, a corrupt archive member); the program is sequential and
\* always takes its next step
LiveDocs == { << >>, <<LP1>>, <<LBody>>, <<LBody, LP1>>, <<LBody, LH1A, LP1>>,
              <<LMis, LBody, LP1, LH1A>> }

InitSegLive ==
  /\ IdleLook /\ IdleFiles /\ IdleMain
  /\ backend \in {"dir", "zip"}
  /\ entries \in SegSources
  /\ doc \in (IF entries = << >> THEN {<< >>} ELSE LiveDocs)
  /\ bookMax \in 1..MaxMaxDepth
  /\ maxDepth \in 1..MaxMaxDepth
  /\ rdStuck \in BOOLEAN
  /\ segPc = "open"
  /\ segErr = "nil"
  /\ fOpen = FALSE
  /\ pos = 0
  /\ rdErrs = 0
  /\ header = << >>
  /\ buf = << >>
  /\ depth = 1
  /\ title = << >>
  /\ calls = << >>

SpecSegLive == InitSegLive /\ [][SegNext]_vars /\ WF_vars(SegNext)

\* ------------------------------------------------------------- claims: helpers
IsPrefix(p, s) == Len(p) <= Len(s) /\ SubSeq(s, 1, Len(p)) = p
IsSuffix(p, s) == Len(p) <= Len(s) /\ SubSeq(s, Len(s) - Len(p) + 1, Len(s)) = p

RECURSIVE JoinLines(_)
JoinLines(ls) ==
  IF ls = << >> THEN << >> ELSE Head(ls) \o <<NL>> \o JoinLines(Tail(ls))

HasBody(d) == \E i \in DOMAIN d : reBody(d[i])
FirstBody(d) == CHOOSE i \in DOMAIN d : reBody(d[i]) /\ \A j \in 1..(i - 1) : ~reBody(d[j])

\* what the document fixes: its Envelope and its body lines
EnvelopeOf(d) == JoinLines(SubSeq(d, 1, FirstBody(d)))
BodyOf(d) == SubSeq(d, FirstBody(d) + 1, Len(d))

\* the heading lines of the model's alphabet, read off their text
HeadingOf(l) ==
  CASE l = LH1A -> [depth |-> 1, title |-> <<"A">>]
    [] l = LH2A1 -> [depth |-> 2, title |-> <<"A", ".", "1">>]
    [] l = LH1B -> [depth |-> 1, title |-> <<"B">>]
    [] OTHER -> [depth |-> 0, title |-> << >>]

Qualifies(l) == HeadingOf(l).depth > 0 /\ HeadingOf(l).depth <= maxDepth

\* the scan read the whole document and returned without error
ScanCompleted ==
  /\ segPc = "ret"
  /\ segErr = "nil"
  /\ rdErrs = 0

TitlesAndDepths == [i \in DOMAIN calls |-> <<calls[i].title, calls[i].depth>>]

\* ------------------------------------------------------------- C1
\* C1: every chapter passed to AddChapter has content that begins with the
\* Envelope of the document (the lines up to and including the body-open line).
C1_EveryChapterBeginsWithEnvelope ==
  \A i \in DOMAIN calls : IsPrefix(EnvelopeOf(doc), calls[i].data)

\* ------------------------------------------------------------- C2
\* the indices of the body lines that are headings of depth <= maxDepth
QualIdx(body) == {i \in DOMAIN body : Qualifies(body[i])}
\* 1 when body lines precede the first such heading, else 0
Leading(body) == IF body # << >> /\ 1 \notin QualIdx(body) THEN 1 ELSE 0

\* C2: after a completed scan every body line that is a heading of level
\* L <= maxDepth is the first body line of a chapter of its own, passed to
\* AddChapter with the heading's inner text as title and L as depth; the
\* scenario document with maxDepth = 2 yields (A,1), (A.1,2), (B,1).
C2_QualifyingHeadingStartsChapter ==
  ScanCompleted =>
    LET body == BodyOf(doc)
        Q == QualIdx(body)
    IN /\ Len(calls) = Cardinality(Q) + Leading(body)
       /\ \A i \in Q :
            LET k == Cardinality({j \in Q : j <= i}) + Leading(body)
            IN /\ calls[k].title = HeadingOf(body[i]).title
               /\ calls[k].depth = HeadingOf(body[i]).depth
               /\ IsPrefix(EnvelopeOf(doc) \o body[i] \o <<NL>>, calls[k].data)
       /\ (doc = ScenarioDoc /\ maxDepth = 2) =>
            TitlesAndDepths = << <<<<"A">>, 1>>, <<<<"A", ".", "1">>, 2>>, <<<<"B">>, 1>> >>

C2_Witness ==
  /\ ScanCompleted
  /\ doc = ScenarioDoc
  /\ maxDepth = 2
  /\ Len(calls) = 3

\* ------------------------------------------------------------- C3
\* the scan is about to read a body heading line deeper than maxDepth
DeepHeadingNext ==
  /\ segPc = "accum"
  /\ pos < Len(doc)
  /\ HeadingOf(doc[pos + 1]).depth > maxDepth

C3_ScenarioDepth1 ==
  (ScanCompleted /\ doc = ScenarioDoc /\ maxDepth = 1) =>
    /\ TitlesAndDepths = << <<<<"A">>, 1>>, <<<<"B">>, 1>> >>
    /\ calls[1].data = EnvelopeOf(doc) \o JoinLines(<<LH1A, LP1, LH2A1, LP2>>) \o Footer

\* C3: reading a heading line deeper than maxDepth registers no chapter,
\* starts none, leaves the current title and depth alone and appends the line
\* to the chapter being accumulated; the scenario document with maxDepth = 1
\* yields two chapters, the first holding p1, the A.1 heading line and p2.
C3_DeepHeadingIsContent ==
  /\ [][(DeepHeadingNext /\ pos' = pos + 1) =>
          /\ calls' = calls
          /\ title' = title
          /\ depth' = depth
          /\ segPc' = "accum"
          /\ buf' = buf \o doc[pos + 1] \o <<NL>>]_vars
  /\ []C3_ScenarioDepth1

C3_Witness ==
  /\ segPc = "accum"
  /\ maxDepth = 1
  /\ rdErrs = 0
  /\ pos > FirstBody(doc) + 1
  /\ doc[pos] = LH2A1
  /\ IsSuffix(LP1 \o <<NL>> \o LH2A1 \o <<NL>>, buf)

\* ------------------------------------------------------------- C4
StripEnvelope(env, data) ==
  IF IsPrefix(env, data) THEN SubSeq(data, Len(env) + 1, Len(data)) ELSE data
StripFooter(data) ==
  IF IsSuffix(Footer, data) THEN SubSeq(data, 1, Len(data) - Len(Footer)) ELSE data

RECURSIVE StrippedConcat(_, _)
StrippedConcat(env, cs) ==
  IF cs = << >> THEN << >>
  ELSE StripEnvelope(env, StripFooter(Head(cs).data)) \o StrippedConcat(env, Tail(cs))

\* C4: after a completed scan of a document with a body-open line, the
\* chapters in registration order, each without its Envelope prefix and its
\* closing footer, concatenate to exactly the body lines of the document.
C4_ChaptersReproduceBody ==
  (ScanCompleted /\ HasBody(doc)) =>
    StrippedConcat(EnvelopeOf(doc), calls) = JoinLines(BodyOf(doc))

\* ------------------------------------------------------------- C5
\* C5: for a book.html without a body-open line AddChapter is never called and
\* addChaptersToBook returns an error; when the reader reaches end of input the
\* error is the end-of-input error of the Prologue.
C5_NoBodyLineFails ==
  (OpenFile(backend, entries, BookHtml) # 0 /\ ~HasBody(doc)) =>
    /\ calls = << >>
    /\ segPc = "ret" => segErr \in {"EOF", "IOError"}
    /\ (segPc = "ret" /\ rdErrs = 0) => (segErr = "EOF" /\ pos = Len(doc))

C5_Witness ==
  /\ segPc = "ret"
  /\ segErr = "EOF"
  /\ ~HasBody(doc)
  /\ Len(doc) = 2
  /\ calls = << >>

\* ------------------------------------------------------------- C6
\* C6: a read error other than end of input, in either loop, ends the scan:
\* addChaptersToBook has returned, and returned that error.
C6_ReadErrorAborts ==
  rdErrs > 0 => (segPc = "ret" /\ segErr = "IOError")

\* ------------------------------------------------------------- Source lookup
IsDistinct(es) == \A i, j \in DOMAIN es : es[i] = es[j] => i = j

\* the entry lists of a backend: a directory holds each relative path once,
\* an archive may repeat a name
Sources(b) ==
  IF b = "dir"
  THEN {es \in SeqsUpTo(EntryNames, MaxEntries) : IsDistinct(es)}
  ELSE SeqsUpTo(EntryNames, MaxEntries)

\* one call fp.OpenFile(reqPath)
Lookup ==
  /\ openRes = -1
  /\ openRes' = OpenFile(backend, entries, reqPath)
  /\ UNCHANGED <<srcVars, segVars, fileVars, mainVars, reqPath, hdrLine, hdrRes>>

InitSrc ==
  /\ IdleSeg /\ IdleFiles /\ IdleMain
  /\ doc = << >>
  /\ bookMax = 1
  /\ maxDepth = 1
  /\ backend \in {"dir", "zip"}
  /\ entries \in Sources(backend)
  /\ reqPath \in EntryNames
  /\ openRes = -1
  /\ IdleHdr

SpecSrc == InitSrc /\ [][Lookup]_vars

\* C8: an archive-backed OpenFile(p) opens the first entry whose lower-cased
\* name equals lower-cased p, whatever the letter case of p, and reports
\* NotFound only when there is none; a directory-backed OpenFile(p) opens the
\* entry named exactly p.
C8_LookupCaseRule ==
  openRes # -1 =>
    LET hits == IF backend = "zip"
                THEN {i \in DOMAIN entries : ToLower(entries[i]) = ToLower(reqPath)}
                ELSE {i \in DOMAIN entries : entries[i] = reqPath}
    IN IF hits = {} THEN openRes = 0
       ELSE openRes \in hits /\ \A j \in hits : openRes <= j

\* ------------------------------------------------------------- addFilesToBook
IsReserved_CaseSensitive(path) == path \in {BookIni, BookHtml, CoverHtml}

\* lines 118-121: the visitor skips the reserved names
IsReserved(path) == ToLower(path) \in {BookIni, BookHtml, CoverHtml}

\* book.AddFile(path, data): ok, or the name-collision error
AddFile(path) ==
  IF \E i \in DOMAIN files : files[i].path = path /\ files[i].res = "nil"
  THEN "NameCollision" ELSE "nil"

FilesReturn(e) ==
  /\ filesPc' = "ret"
  /\ filesErr' = e

\* lines 117-126: Traverse hands the next entry to the visitor, which skips
\* it or opens it
FilesVisit ==
  /\ filesPc = "run"
  /\ fIdx < Len(entries)
  /\ LET path == entries[fIdx + 1]
         r == OpenFile(backend, entries, path)
     IN /\ fIdx' = fIdx + 1
        /\ IF IsReserved(path)
           THEN UNCHANGED <<filesPc, filesErr, openStreams, opened>>
           ELSE /\ opened' = Append(opened, path)
                /\ IF r = 0
                   THEN FilesReturn("NotExist") /\ UNCHANGED openStreams
                   ELSE /\ filesPc' = "opened"
                        /\ openStreams' = openStreams \cup {r}
                        /\ UNCHANGED filesErr
  /\ UNCHANGED <<srcVars, segVars, lookVars, mainVars, files>>

DeferredClose_OnSuccessOnly(streams, rc, e) == IF e = "nil" THEN streams \ {rc} ELSE streams

\* line 127: defer rc.Close() runs when the visitor returns, whatever it returns
DeferredClose(streams, rc, e) == streams \ {rc}

\* lines 127-133: ReadAll, AddFile and the deferred Close of the visitor
FilesReadAdd ==
  /\ filesPc = "opened"
  /\ LET path == entries[fIdx]
         rc == OpenFile(backend, entries, path)
     IN \E readOk \in BOOLEAN :
          LET e == IF readOk THEN AddFile(path) ELSE "IOError"
          IN /\ files' = IF readOk
                         THEN Append(files, [path |-> path, res |-> e])
                         ELSE files
             /\ IF e = "nil"
                THEN filesPc' = "run" /\ UNCHANGED filesErr
                ELSE FilesReturn(e)
             /\ openStreams' = DeferredClose(openStreams, rc, e)
  /\ UNCHANGED <<srcVars, segVars, lookVars, mainVars, fIdx, opened>>

\* lines 43-46, 54: filepath.Walk reports an error to the walk function
FilesWalkError ==
  /\ filesPc = "run"
  /\ backend = "dir"
  /\ FilesReturn("WalkError")
  /\ UNCHANGED <<srcVars, segVars, lookVars, mainVars, fIdx, openStreams, opened, files>>

\* line 136: Traverse has visited every entry
FilesDone ==
  /\ filesPc = "run"
  /\ fIdx = Len(entries)
  /\ FilesReturn("nil")
  /\ UNCHANGED <<srcVars, segVars, lookVars, mainVars, fIdx, openStreams, opened, files>>

FilesNext == FilesVisit \/ FilesReadAdd \/ FilesWalkError \/ FilesDone

InitFiles ==
  /\ IdleSeg /\ IdleLook /\ IdleMain
  /\ doc = << >>
  /\ bookMax = 1
  /\ maxDepth = 1
  /\ backend \in {"dir", "zip"}
  /\ entries \in Sources(backend)
  /\ filesPc = "run"
  /\ filesErr = "nil"
  /\ fIdx = 0
  /\ openStreams = {}
  /\ opened = << >>
  /\ files = << >>

SpecFiles == InitFiles /\ [][FilesNext]_vars

ReservedLower == {BookIni, BookHtml, CoverHtml}

\* C9: addFilesToBook never opens and never registers an entry whose
\* lower-cased path is book.ini, book.html or cover.html.
C9_ReservedNeverRegistered ==
  /\ \A i \in DOMAIN opened : ToLower(opened[i]) \notin ReservedLower
  /\ \A i \in DOMAIN files : ToLower(files[i].path) \notin ReservedLower

\* a reserved name in upper case was visited and skipped, an asset registered
C9_Witness ==
  /\ filesPc = "ret"
  /\ filesErr = "nil"
  /\ entries = <<NIniU, NAsset>>
  /\ Len(files) = 1

\* ------------------------------------------------------------- generateBook, main
\* os.Exit(code): the process ends at once; deferred calls are not run
OsExit(code) ==
  /\ mainPc' = "exited"
  /\ exitCode' = code
  /\ UNCHANGED <<zipHandle, deferred>>

\* lines 276-292: argument check, isDir, and the directory branch
MainStart ==
  /\ mainPc = "main"
  /\ \E r \in {"usage", "statError", "ok"} :
       IF r # "ok"
       THEN OsExit(1)
       ELSE /\ mainPc' = IF backend = "dir" THEN "loadConfig" ELSE "newZip"
            /\ UNCHANGED <<exitCode, zipHandle, deferred>>
  /\ UNCHANGED <<srcVars, segVars, lookVars, fileVars, cfgDepth, outPath, cfgRes,
                 epubRes, coverRes, saveRes, gbErr>>

\* lines 293-300: NewZipSource, and the deferred zs.Close()
MainNewZip ==
  /\ mainPc = "newZip"
  /\ \E ok \in BOOLEAN :
       IF ok
       THEN /\ zipHandle' = "open"
            /\ deferred' = Append(deferred, "zs.Close")
            /\ mainPc' = "loadConfig"
            /\ UNCHANGED gbErr
       ELSE /\ gbErr' = "ZipError"
            /\ mainPc' = "genRet"
            /\ UNCHANGED <<zipHandle, deferred>>
  /\ UNCHANGED <<srcVars, segVars, lookVars, fileVars, cfgDepth, outPath, cfgRes,
                 epubRes, coverRes, saveRes, exitCode>>

GBReturn(e) ==
  /\ mainPc' = "genRet"
  /\ gbErr' = e

\* lines 198-212: loadConfig
GBLoadConfig ==
  /\ mainPc = "loadConfig"
  /\ IF OpenFile(backend, entries, BookIni) = 0
     THEN cfgRes' = "NotExist" /\ GBReturn("NotExist")
     ELSE \E ok \in BOOLEAN :
            IF ok
            THEN cfgRes' = "ok" /\ mainPc' = "newEpub" /\ UNCHANGED gbErr
            ELSE cfgRes' = "Malformed" /\ GBReturn("Malformed")
  /\ UNCHANGED <<srcVars, segVars, lookVars, fileVars, cfgDepth, outPath,
                 epubRes, coverRes, saveRes, zipHandle, deferred, exitCode>>

\* lines 214-231: NewEpub, then name and author (warnings only)
GBNewEpub ==
  /\ mainPc = "newEpub"
  /\ \E ok \in BOOLEAN :
       IF ok
       THEN epubRes' = "ok" /\ mainPc' = "cover" /\ UNCHANGED gbErr
       ELSE epubRes' = "error" /\ GBReturn("EpubError")
  /\ UNCHANGED <<srcVars, segVars, lookVars, fileVars, cfgDepth, outPath,
                 cfgRes, coverRes, saveRes, zipHandle, deferred, exitCode>>

\* lines 102-114: what setCoverPage returns: the e of line 103; the e of
\* line 109 is local to the if statement
setCoverPage(openOk, readOk) == IF openOk THEN "nil" ELSE "NotExist"

\* lines 233-236 with setCoverPage
GBSetCover ==
  /\ mainPc = "cover"
  /\ \E readOk \in BOOLEAN :
       LET openOk == OpenFile(backend, entries, CoverHtml) # 0
           e == setCoverPage(openOk, readOk)
       IN /\ coverRes' = IF ~openOk THEN "openFail"
                         ELSE IF readOk THEN "set" ELSE "readFail"
          /\ IF e # "nil"
             THEN GBReturn(e) /\ UNCHANGED <<filesPc>>
             ELSE mainPc' = "files" /\ filesPc' = "run" /\ UNCHANGED gbErr
  /\ UNCHANGED <<srcVars, segVars, lookVars, filesErr, fIdx, openStreams, opened,
                 files, cfgDepth, outPath, cfgRes, epubRes, saveRes, zipHandle,
                 deferred, exitCode>>

EffectiveDepth_NoUpperLimit(d) == IF d < 1 THEN 1 ELSE d

\* lines 243-247: the effective split depth
EffectiveDepth(d) == IF d < 1 \/ d > bookMax THEN 1 ELSE d

\* lines 238-248: addFilesToBook has returned; on success the split depth is
\* resolved and addChaptersToBook called
GBAfterFiles ==
  /\ mainPc = "files"
  /\ filesPc = "ret"
  /\ IF filesErr # "nil"
     THEN GBReturn(filesErr) /\ UNCHANGED <<segPc, maxDepth>>
     ELSE /\ mainPc' = "chapters"
          /\ maxDepth' = EffectiveDepth(cfgDepth)
          /\ segPc' = "open"
          /\ UNCHANGED gbErr
  /\ UNCHANGED <<srcVars, lookVars, fileVars, doc, bookMax, segErr, fOpen, pos,
                 rdErrs, rdStuck, header, buf, depth, title, calls, cfgDepth, outPath,
                 cfgRes, epubRes, coverRes, saveRes, zipHandle, deferred, exitCode>>

\* lines 248-264: addChaptersToBook has returned; on success the output path
\* is resolved and the book saved
GBAfterChapters ==
  /\ mainPc = "chapters"
  /\ segPc = "ret"
  /\ IF segErr # "nil"
     THEN GBReturn(segErr) /\ UNCHANGED saveRes
     ELSE IF ~outPath
          THEN GBReturn("nil") /\ UNCHANGED saveRes
          ELSE \E ok \in BOOLEAN :
                 /\ saveRes' = IF ok THEN "ok" ELSE "error"
                 /\ GBReturn(IF ok THEN "nil" ELSE "SaveError")
  /\ UNCHANGED <<srcVars, segVars, lookVars, fileVars, cfgDepth, outPath,
                 cfgRes, epubRes, coverRes, zipHandle, deferred, exitCode>>

\* lines 303-308
MainExit ==
  /\ mainPc = "genRet"
  /\ OsExit(IF gbErr # "nil" THEN 1 ELSE 0)
  /\ UNCHANGED <<srcVars, segVars, lookVars, fileVars, cfgDepth, outPath, cfgRes,
                 epubRes, coverRes, saveRes, gbErr>>

MainNext ==
  \/ MainStart \/ MainNewZip \/ GBLoadConfig \/ GBNewEpub \/ GBSetCover
  \/ GBAfterFiles \/ GBAfterChapters \/ MainExit
  \/ FilesVisit \/ FilesReadAdd \/ FilesWalkError \/ FilesDone
  \/ SegOpen \/ SegPrologueLine \/ SegPrologueFail \/ SegAccumLine \/ SegAccumFail

\* the Sources and documents of whole runs
MainSources ==
  { <<BookIni, CoverHtml, BookHtml, NAsset>>,
    <<BookIni, CoverHtml, BookHtml, NAssetU>>,
    <<NIniU, CoverHtml, BookHtml>>,
    <<BookIni, BookHtml>>,
    <<BookIni, CoverHtml>> }

MainDocs == { << >>, <<LP1>>, <<LBody, LP1>>, <<LBody, LP1, LH1A, LH2A1>>, ScenarioDoc }

InitMain ==
  /\ IdleSeg /\ IdleLook /\ IdleFiles
  /\ backend \in {"dir", "zip"}
  /\ entries \in MainSources
  /\ doc \in MainDocs
  /\ bookMax \in 1..MaxMaxDepth
  /\ maxDepth = 1
  /\ mainPc = "main"
  /\ cfgDepth \in 0..(MaxMaxDepth + 1)
  /\ outPath \in BOOLEAN
  /\ cfgRes = "none"
  /\ epubRes = "none"
  /\ coverRes = "none"
  /\ saveRes = "none"
  /\ gbErr = "nil"
  /\ zipHandle = "none"
  /\ deferred = << >>
  /\ exitCode = -1

SpecMain == InitMain /\ [][MainNext]_vars

\* C7: book.Save is invoked only when the configuration was loaded, the
\* container created, the cover page read and registered, every non-reserved
\* asset registered and every chapter accepted by AddChapter.
C7_SaveOnlyAfterEverySuccess ==
  saveRes # "none" =>
    /\ cfgRes = "ok"
    /\ epubRes = "ok"
    /\ coverRes = "set"
    /\ filesErr = "nil"
    /\ \A i \in DOMAIN entries :
         ~IsReserved(entries[i]) =>
           \E k \in DOMAIN files : files[k].path = entries[i] /\ files[k].res = "nil"
    /\ \A k \in DOMAIN calls : calls[k].res = "nil"

\* C10: when the archive was opened, ZipSource.Close has been executed by the
\* time the process has exited, with exit code 0 or 1.
C10_ArchiveClosedAtExit ==
  (mainPc = "exited" /\ zipHandle # "none") => zipHandle = "closed"

\* ------------------------------------------------------------- C11
\* C11: when cover.html cannot be opened, or its bytes cannot be read after a
\* successful open, generateBook has returned an error and neither asset
\* collection, nor segmentation, nor Save has run.
C11_UnreadableCoverIsFatal ==
  coverRes \in {"openFail", "readFail"} =>
    /\ mainPc \in {"genRet", "exited"}
    /\ gbErr # "nil"
    /\ filesPc = "idle"
    /\ segPc = "idle"
    /\ saveRes = "none"

\* ------------------------------------------------------------- C12
\* C12: when AddChapter rejects a chapter, mid-stream or the final one,
\* addChaptersToBook returns that error (and no chapter is registered after
\* the rejected one).
C12_RejectedChapterIsReturned ==
  \A k \in DOMAIN calls :
    calls[k].res # "nil" =>
      /\ k = Len(calls)
      /\ segPc = "ret"
      /\ segErr = calls[k].res

\* ------------------------------------------------------------- C13
\* C13: when no read, walk or AddFile error occurs, addFilesToBook returns nil
\* and has registered every entry with a non-reserved name exactly once, under
\* its original path.
C13_EveryAssetRegistered ==
  (filesPc = "ret" /\ filesErr \notin {"IOError", "WalkError", "NameCollision"}) =>
    /\ filesErr = "nil"
    /\ \A i \in DOMAIN entries :
         ToLower(entries[i]) \notin ReservedLower =>
           Cardinality({k \in DOMAIN files : files[k].path = entries[i]}) = 1

\* ------------------------------------------------------------- C15
\* C15: during asset collection at most one entry stream is open, and none is
\* open between two visits or after addFilesToBook has returned, whether the
\* visit succeeded or ReadAll or AddFile failed in it.
C15_OneStreamAtATime ==
  /\ Cardinality(openStreams) <= 1
  /\ filesPc \in {"run", "ret"} => openStreams = {}

\* one entry was registered, then ReadAll failed on the next one
C15_Witness ==
  /\ filesPc = "ret"
  /\ filesErr = "IOError"
  /\ Len(files) = 1
  /\ Len(opened) = 2
  /\ openStreams = {}

\* ------------------------------------------------------------- C16
\* how often p occurs in s
CountOcc(p, s) ==
  Cardinality({i \in 1..(Len(s) - Len(p) + 1) : SubSeq(s, i, i + Len(p) - 1) = p})

\* C16: a chapter registered because a later qualifying heading arrived ends
\* with the closing footer, which occurs in it exactly once; the final chapter,
\* registered at end of input, holds no footer and ends with the last body line.
C16_FooterOnlyMidStream ==
  \A k \in DOMAIN calls :
    IF segPc = "ret" /\ segErr = "nil" /\ k = Len(calls)
    THEN /\ ~IsSuffix(Footer, calls[k].data)
         /\ CountOcc(Footer, calls[k].data) = 0
         /\ rdErrs = 0 => IsSuffix(doc[Len(doc)] \o <<NL>>, calls[k].data)
    ELSE /\ IsSuffix(Footer, calls[k].data)
         /\ CountOcc(Footer, calls[k].data) = 1

C16_Witness ==
  /\ ScanCompleted
  /\ doc = <<LBody, LH1A, LP1, LH2A1>>
  /\ maxDepth = 2
  /\ Len(calls) = 2

\* ------------------------------------------------------------- C17
\* the body lines before the first heading of depth <= maxDepth
LeadingLines(body) ==
  SubSeq(body, 1, CHOOSE n \in 0..Len(body) :
                    /\ \A i \in 1..n : ~Qualifies(body[i])
                    /\ (n = Len(body) \/ Qualifies(body[n + 1])))

\* C17: after a completed scan, body lines that precede the first qualifying
\* heading form the first chapter, with empty title and depth 1; a non-empty
\* body without qualifying heading yields that one chapter, holding every body
\* line.
C17_LeadingChapterUntitled ==
  (ScanCompleted /\ Leading(BodyOf(doc)) = 1) =>
    LET body == BodyOf(doc)
    IN /\ calls[1].title = << >>
       /\ calls[1].depth = 1
       /\ IsSuffix(JoinLines(LeadingLines(body)), StripFooter(calls[1].data))
       /\ QualIdx(body) = {} => Len(calls) = 1

C17_Witness ==
  /\ ScanCompleted
  /\ doc = <<LBody, LP1, LMis, LH1A>>
  /\ Len(calls) = 2
  /\ calls[1].title = << >>

\* ------------------------------------------------------------- C19
\* C19: in a run of generateBook the split depth handed to addChaptersToBook
\* is the configured depth, or 1 when that is below 1 or above book.MaxDepth();
\* it lies in 1..book.MaxDepth(), every AddChapter call carries a depth between
\* 1 and it, and none is rejected for its depth.
C19_ChapterDepthWithinLimit ==
  (mainPc \in {"chapters", "genRet", "exited"} /\ segPc # "idle") =>
    /\ (cfgDepth < 1 \/ cfgDepth > bookMax) => maxDepth = 1
    /\ (cfgDepth >= 1 /\ cfgDepth <= bookMax) => maxDepth = cfgDepth
    /\ 1 <= maxDepth /\ maxDepth <= bookMax
    /\ \A k \in DOMAIN calls :
         /\ 1 <= calls[k].depth
         /\ calls[k].depth <= maxDepth
         /\ calls[k].res # "DepthExceeded"

\* a configured depth above book.MaxDepth() was reset and the book segmented
C19_Witness ==
  /\ mainPc = "exited"
  /\ exitCode = 0
  /\ cfgDepth > bookMax
  /\ maxDepth = 1
  /\ Len(calls) = 2

\* ------------------------------------------------------------- checkNewChapter alone
\* the lines handed to checkNewChapter: leading text, an opening tag, inner
\* text, a closing tag, trailing text
HdrPre == {<< >>, <<" ", TAB>>, <<"x">>}
HdrOpen == { <<"<", "h", "1", ">">>, <<"<", "H", "2", ">">>, <<"<", "h", "6", " ", "c", ">">>,
             <<"<", "h", "1", "x", ">">>, <<"<", "h", "7", ">">>, <<"<", "p", ">">>, << >> }
HdrText == {<< >>, <<"A", " ">>, <<"<", "i", ">">>}
HdrClose == { <<"<", "/", "h", "1", ">">>, <<"<", "/", "h", "2", ">">>, <<"<", "/", "H", "6", ">">>,
              <<"<", "/", "h", "7", ">">>, <<"<", "/", "h", "1", " ", ">">>, << >> }
HdrPost == {<< >>, <<TAB, " ">>, <<"x">>}

HdrLines ==
  {a \o b \o c \o d \o e : a \in HdrPre, b \in HdrOpen, c \in HdrText, d \in HdrClose, e \in HdrPost}

\* one call checkNewChapter(hdrLine)
CheckLine ==
  /\ hdrRes = << >>
  /\ hdrRes' = <<checkNewChapter(hdrLine)>>
  /\ UNCHANGED <<srcVars, segVars, fileVars, mainVars, reqPath, openRes, hdrLine>>

InitHdr ==
  /\ IdleSeg /\ IdleFiles /\ IdleMain
  /\ backend = "dir"
  /\ entries = << >>
  /\ doc = << >>
  /\ bookMax = 1
  /\ maxDepth = 1
  /\ reqPath = << >>
  /\ openRes = -1
  /\ hdrLine \in HdrLines
  /\ hdrRes = << >>

SpecHdr == InitHdr /\ [][CheckLine]_vars

LevelChar(n) == <<"1", "2", "3", "4", "5", "6">>[n]

\* l is: blanks, an opening heading tag of level n that ends at index b, inner
\* text without "<", a closing heading tag of level n that starts at index c,
\* blanks.  The opening tag is "<", h or H, the level, then ">" at once or a
\* blank and attribute text.
IsHeadingShape(l, n, b, c) ==
  \E a \in 1..Len(l) :
    /\ \A k \in 1..(a - 1) : l[k] \in Ws
    /\ l[a] = "<"
    /\ a + 2 < c /\ a + 2 < b + 1 /\ b < c /\ c + 4 <= Len(l)
    /\ l[a + 1] \in {"h", "H"}
    /\ l[a + 2] = LevelChar(n)
    /\ (b = a + 3 \/ l[a + 3] \in Ws)
    /\ l[b] = ">"
    /\ \A k \in (a + 3)..(b - 1) : l[k] # ">"
    /\ \A k \in (b + 1)..(c - 1) : l[k] # "<"
    /\ l[c] = "<" /\ l[c + 1] = "/" /\ l[c + 2] \in {"h", "H"}
    /\ l[c + 3] = LevelChar(n) /\ l[c + 4] = ">"
    /\ \A k \in (c + 5)..Len(l) : l[k] \in Ws

\* C18: checkNewChapter returns depth N in 1..6 and the inner text as title
\* exactly when the line, blanks at both ends aside, is an opening heading tag
\* of level N, inner text without tag markers and a closing heading tag of the
\* same level N; for every other line it returns depth 0 and an empty title.
C18_HeadingOnlyForHeadingShape ==
  hdrRes # << >> =>
    LET l == hdrLine
        shapes == {x \in (1..6) \X (1..Len(l)) \X (1..Len(l)) :
                     IsHeadingShape(l, x[1], x[2], x[3])}
    IN IF shapes = {}
       THEN hdrRes[1] = [depth |-> 0, title |-> << >>]
       ELSE \E x \in shapes :
              hdrRes[1] = [depth |-> x[1], title |-> SubSeq(l, x[2] + 1, x[3] - 1)]


\* ------------------------------------------------------------- C14
\* C14: addChaptersToBook always terminates: for every document and every
\* behaviour of the reader, a persistent non-EOF error in the second loop
\* included, the scan eventually returns, with nil or with an error.
C14_ScanTerminates == <>(segPc = "ret")

====
